---- MODULE Spec2Model ----
(***************************************************************************)
(* Model of streamlit_app.py: the Google-Sheets expense dashboard.  One    *)
(* interaction is one top-to-bottom run of the script; the memoised sheet  *)
(* operations, the schema inference, the ledger normalisation and the      *)
(* monthly aggregation are modelled from the script's statements.          *)
(*                                                                         *)
(* Text (headers, cells, labels) is a sequence of one-character strings,   *)
(* so that lower-casing, trimming, parsing and ordering are computed.      *)
(***************************************************************************)
EXTENDS Integers, Sequences, FiniteSets, TLC

\* ------------------------------------------------------------------ text

\* The characters of the model in code-point order.
Chars ==
  << " ", "-",
     "0", "1", "2", "3", "4", "5", "6", "7", "8", "9",
     "A", "B", "C", "D", "E", "F", "G", "H", "I", "J", "K", "L", "M",
     "N", "O", "P", "Q", "R", "S", "T", "U", "V", "W", "X", "Y", "Z",
     "a", "b", "c", "d", "e", "f", "g", "h", "i", "j", "k", "l", "m",
     "n", "o", "p", "q", "r", "s", "t", "u", "v", "w", "x", "y", "z" >>

Ord(c) == CHOOSE i \in 1..Len(Chars) : Chars[i] = c

IsDigit(c) == Ord(c) >= Ord("0") /\ Ord(c) <= Ord("9")

IsUpper(c) == Ord(c) >= Ord("A") /\ Ord(c) <= Ord("Z")

DigitVal(c) == Ord(c) - Ord("0")

DigitChar(n) == Chars[Ord("0") + n]

\* str.lower() on one character and on a text.
LowerChar(c) == IF IsUpper(c) THEN Chars[Ord(c) - Ord("A") + Ord("a")] ELSE c

Lower(s) == [i \in 1..Len(s) |-> LowerChar(s[i])]

\* str.strip(): leading and trailing blanks removed.
RECURSIVE LStrip(_)
LStrip(s) == IF s # <<>> /\ Head(s) = " " THEN LStrip(Tail(s)) ELSE s

RECURSIVE RStrip(_)
RStrip(s) ==
  IF s # <<>> /\ s[Len(s)] = " " THEN RStrip(SubSeq(s, 1, Len(s) - 1)) ELSE s

Strip(s) == RStrip(LStrip(s))

\* Python's order on str: lexicographic by code point.
RECURSIVE StrLess(_, _)
StrLess(a, b) ==
  IF b = <<>> THEN FALSE
  ELSE IF a = <<>> THEN TRUE
  ELSE IF Head(a) # Head(b) THEN Ord(Head(a)) < Ord(Head(b))
  ELSE StrLess(Tail(a), Tail(b))

\* The texts of a set in ascending order.
RECURSIVE SortStrs(_)
SortStrs(S) ==
  IF S = {} THEN <<>>
  ELSE LET m == CHOOSE x \in S : \A y \in S \ {x} : StrLess(x, y)
       IN  <<m>> \o SortStrs(S \ {m})

Range(s) == {s[i] : i \in 1..Len(s)}

\* Decimal digits of a natural number, and zero-padded to a width.
RECURSIVE Digits(_)
Digits(n) == IF n < 10 THEN <<DigitChar(n)>> ELSE Digits(n \div 10) \o <<DigitChar(n % 10)>>

RECURSIVE Pad(_, _)
Pad(s, w) == IF Len(s) >= w THEN s ELSE Pad(<<"0">> \o s, w)

\* str(n) of an integer.
IntStr(n) == IF n < 0 THEN <<"-">> \o Digits(-n) ELSE Digits(n)

RECURSIVE DigitsVal(_, _)
DigitsVal(s, acc) ==
  IF s = <<>> THEN acc ELSE DigitsVal(Tail(s), acc * 10 + DigitVal(Head(s)))

AllDigits(s) == s # <<>> /\ \A i \in 1..Len(s) : IsDigit(s[i])

\* ----------------------------------------------------------------- values

\* Python's None.
None == <<"None">>

\* A worksheet cell as gspread hands it over: a number or a text ("" for an
\* empty cell, empty2zero=False).
Num(n) == [k |-> "num", v |-> n]
Str(s) == [k |-> "str", s |-> s]

NaN == [k |-> "nan"]
NA == [k |-> "NA"]
NaT == [k |-> "NaT"]
Float(n) == [k |-> "float", v |-> n]
Timestamp(y, m, d) == [k |-> "ts", y |-> y, m |-> m, d |-> d]
DateOf(y, m, d) == [k |-> "date", y |-> y, m |-> m, d |-> d]

\* ------------------------------------------------------------------ frames

\* A pandas DataFrame: the column labels in order, one series per label, and
\* the number of rows (the length of the index).
Frame(cols, data, n) == [columns |-> cols, data |-> data, n |-> n]

\* pd.DataFrame(): no columns, no rows.
EmptyFrame == Frame(<<>>, <<>>, 0)

\* A scalar broadcast over the index of a frame.
Broadcast(f, x) == [i \in 1..f.n |-> x]

\* work[name] = series : an existing label is overwritten in place, a new one
\* is appended; the index is untouched.
SetColumn(f, name, series) ==
  Frame(IF name \in Range(f.columns) THEN f.columns ELSE Append(f.columns, name),
        [c \in (DOMAIN f.data) \cup {name} |-> IF c = name THEN series ELSE f.data[c]],
        f.n)

\* IsEmpty as it would be if only a table with headers and no rows counted.
IsEmpty_rowsOnly(f) == f.n = 0 /\ Len(f.columns) > 0

\* df.empty : some axis has length 0.
IsEmpty(f) == f.n = 0 \/ Len(f.columns) = 0

\* -------------------------------------------------------- schema inference

RECURSIVE BuildColMap_firstWins(_, _)
\* BuildColMap as it would be if a key, once set, were kept.
BuildColMap_firstWins(cols, m) ==
  IF cols = <<>> THEN m
  ELSE LET c == Head(cols)
           key == Lower(c)
       IN  BuildColMap_firstWins(Tail(cols),
             IF key \in DOMAIN m THEN m
             ELSE [x \in (DOMAIN m) \cup {key} |-> IF x = key THEN c ELSE m[x]])

\* {c.lower(): c for c in df.columns} : the keys are inserted in column
\* order, a later column replacing an earlier one with the same key.
RECURSIVE BuildColMap(_, _)
BuildColMap(cols, m) ==
  IF cols = <<>> THEN m
  ELSE LET c == Head(cols)
           key == Lower(c)
       IN  BuildColMap(Tail(cols),
             [x \in (DOMAIN m) \cup {key} |-> IF x = key THEN c ELSE m[x]])

ColMap(cols) == BuildColMap(cols, <<>>)

\* dict.get(key) : None when the key is missing.
Get(m, key) == IF key \in DOMAIN m THEN m[key] ELSE None

\* Python's `a or b` on values that are None or a text.
Or(a, b) == IF a # None /\ a # <<>> THEN a ELSE b

S_datetime == <<"d", "a", "t", "e", "t", "i", "m", "e">>
S_date == <<"d", "a", "t", "e">>
S_amount == <<"a", "m", "o", "u", "n", "t">>
S_amt == <<"a", "m", "t">>
S_type == <<"t", "y", "p", "e">>
S_message == <<"m", "e", "s", "s", "a", "g", "e">>
S_msg == <<"m", "s", "g">>

DateCol(m) == Or(Get(m, S_datetime), Get(m, S_date))
AmountCol(m) == Or(Get(m, S_amount), Get(m, S_amt))
TypeCol(m) == Get(m, S_type)
MessageCol(m) == Or(Get(m, S_message), Get(m, S_msg))

\* ------------------------------------------------------------ normalisation

L_Amount == <<"A", "m", "o", "u", "n", "t">>
L_DateTime == <<"D", "a", "t", "e", "T", "i", "m", "e">>
L_Date == <<"D", "a", "t", "e">>
L_Month == <<"M", "o", "n", "t", "h">>
L_Weekday == <<"W", "e", "e", "k", "d", "a", "y">>
L_Type == <<"T", "y", "p", "e">>
S_unknown == <<"u", "n", "k", "n", "o", "w", "n">>
S_debit == <<"d", "e", "b", "i", "t">>
S_credit == <<"c", "r", "e", "d", "i", "t">>
S_NaT == <<"N", "a", "T">>
S_nan == <<"n", "a", "n">>

\* pd.to_numeric(. , errors="coerce") on one cell: a number stays, a text is
\* parsed as an optionally signed run of digits, anything else is NaN.
ToNumericCell(c) ==
  IF c.k = "num" THEN Float(c.v)
  ELSE IF c.k = "float" THEN c
  ELSE IF c.k = "str" /\ AllDigits(c.s) THEN Float(DigitsVal(c.s, 0))
  ELSE IF c.k = "str" /\ c.s # <<>> /\ Head(c.s) = "-" /\ AllDigits(Tail(c.s))
       THEN Float(0 - DigitsVal(Tail(c.s), 0))
  ELSE NaN

\* ToNumeric as it would be with the unparseable cells dropped (a dropna()
\* after the conversion).
ToNumeric_dropna(series) ==
  SelectSeq([i \in 1..Len(series) |-> ToNumericCell(series[i])], LAMBDA v : v # NaN)

ToNumeric(series) == [i \in 1..Len(series) |-> ToNumericCell(series[i])]

\* A column's dtype is numeric when every cell is a number.
IsNumericDtype(series) == \A i \in 1..Len(series) : series[i].k = "num"

\* work.select_dtypes(include="number").columns, in column order.
NumericCols(f) == SelectSeq(f.columns, LAMBDA c : IsNumericDtype(f.data[c]))

IsLeap(y) == (y % 4 = 0 /\ y % 100 # 0) \/ y % 400 = 0

DaysInMonth(y, m) ==
  IF m = 2 THEN (IF IsLeap(y) THEN 29 ELSE 28)
  ELSE IF m \in {4, 6, 9, 11} THEN 30 ELSE 31

\* pd.to_datetime(. , errors="coerce") on one cell: a text YYYY-MM-DD naming
\* a calendar day is that day, anything else is NaT.
ToDatetimeCell(c) ==
  IF c.k = "ts" \/ c.k = "NaT" THEN c
  ELSE IF c.k = "str" /\ Len(c.s) = 10 /\ c.s[5] = "-" /\ c.s[8] = "-"
          /\ AllDigits(SubSeq(c.s, 1, 4)) /\ AllDigits(SubSeq(c.s, 6, 7))
          /\ AllDigits(SubSeq(c.s, 9, 10))
       THEN LET y == DigitsVal(SubSeq(c.s, 1, 4), 0)
                m == DigitsVal(SubSeq(c.s, 6, 7), 0)
                d == DigitsVal(SubSeq(c.s, 9, 10), 0)
            IN  IF y >= 1 /\ m \in 1..12 /\ d >= 1 /\ d <= DaysInMonth(y, m)
                THEN Timestamp(y, m, d) ELSE NaT
  ELSE NaT

ToDatetime(series) == [i \in 1..Len(series) |-> ToDatetimeCell(series[i])]

\* .dt.date
DtDate(series) ==
  [i \in 1..Len(series) |->
     IF series[i].k = "ts" THEN DateOf(series[i].y, series[i].m, series[i].d) ELSE NaT]

\* .dt.to_period("M").astype(str) : "YYYY-MM", and "NaT" for NaT.
MonthLabel(t) ==
  IF t.k = "ts" THEN Pad(Digits(t.y), 4) \o <<"-">> \o Pad(Digits(t.m), 2) ELSE S_NaT

DtMonth(series) == [i \in 1..Len(series) |-> Str(MonthLabel(series[i]))]

DayNames ==
  << <<"S", "u", "n", "d", "a", "y">>, <<"M", "o", "n", "d", "a", "y">>,
     <<"T", "u", "e", "s", "d", "a", "y">>, <<"W", "e", "d", "n", "e", "s", "d", "a", "y">>,
     <<"T", "h", "u", "r", "s", "d", "a", "y">>, <<"F", "r", "i", "d", "a", "y">>,
     <<"S", "a", "t", "u", "r", "d", "a", "y">> >>

MonthOffsets == <<0, 3, 2, 5, 0, 3, 5, 1, 4, 6, 2, 4>>

\* Day of the week of a Gregorian date, 0 = Sunday.
DayOfWeek(y, m, d) ==
  LET yy == IF m < 3 THEN y - 1 ELSE y
  IN  (yy + (yy \div 4) - (yy \div 100) + (yy \div 400) + MonthOffsets[m] + d) % 7

\* .dt.day_name()
DtDayName(series) ==
  [i \in 1..Len(series) |->
     IF series[i].k = "ts"
     THEN Str(DayNames[DayOfWeek(series[i].y, series[i].m, series[i].d) + 1])
     ELSE NaN]

\* .astype(str) on one cell.
AsStr(c) ==
  IF c.k = "str" THEN c.s
  ELSE IF c.k = "num" THEN IntStr(c.v)
  ELSE IF c.k = "NaT" THEN S_NaT
  ELSE S_nan

\* work[type_col].astype(str).str.lower().str.strip()
TypeFromColumn(series) == [i \in 1..Len(series) |-> Str(Strip(Lower(AsStr(series[i]))))]

\* IsNeg as it would be with <= in place of <.
IsNeg_orZero(a) == a.k = "float" /\ a.v <= 0

\* work["Amount"] < 0 and > 0 : a comparison with an undefined amount is False.
IsNeg(a) == a.k = "float" /\ a.v < 0
IsPos(a) == a.k = "float" /\ a.v > 0

\* work["Type"] = "unknown"; then the two masked assignments, in order.
TypeFromSign(amounts) ==
  LET t0 == [i \in 1..Len(amounts) |-> Str(S_unknown)]
      t1 == [i \in 1..Len(amounts) |-> IF IsNeg(amounts[i]) THEN Str(S_debit) ELSE t0[i]]
  IN  [i \in 1..Len(amounts) |-> IF IsPos(amounts[i]) THEN Str(S_credit) ELSE t1[i]]

\* Lines 105-109: the Amount column.
WithAmount(w, amount_col) ==
  IF amount_col \in Range(w.columns)
  THEN SetColumn(w, L_Amount, ToNumeric(w.data[amount_col]))
  ELSE LET numeric_cols == NumericCols(w)
       IN  IF Len(numeric_cols) > 0
           THEN SetColumn(w, L_Amount, ToNumeric(w.data[numeric_cols[1]]))
           ELSE SetColumn(w, L_Amount, Broadcast(w, NA))

\* Lines 110-113: the DateTime column.
WithDateTime(w, date_col) ==
  IF date_col \in Range(w.columns)
  THEN SetColumn(w, L_DateTime, ToDatetime(w.data[date_col]))
  ELSE SetColumn(w, L_DateTime, Broadcast(w, NaT))

\* Lines 115-117: Date, Month and Weekday, each from the DateTime column.
WithDateParts(w) ==
  LET w1 == SetColumn(w, L_Date, DtDate(ToDatetime(w.data[L_DateTime])))
      w2 == SetColumn(w1, L_Month, DtMonth(ToDatetime(w1.data[L_DateTime])))
  IN  SetColumn(w2, L_Weekday, DtDayName(ToDatetime(w2.data[L_DateTime])))

\* Lines 119-124: the Type column.
WithType(w, type_col) ==
  IF type_col \in Range(w.columns)
  THEN SetColumn(w, L_Type, TypeFromColumn(w.data[type_col]))
  ELSE SetColumn(w, L_Type, TypeFromSign(w.data[L_Amount]))

\* Lines 104-124: work = df.copy() and the six derived columns.
Normalize(d, amount_col, date_col, type_col) ==
  WithType(WithDateParts(WithDateTime(WithAmount(d, amount_col), date_col)), type_col)

\* -------------------------------------------------------------- aggregation

RECURSIVE SumAmounts(_, _)
\* Series.sum() over the rows of a set: undefined amounts are skipped and the
\* empty sum is 0.
SumAmounts(w, rows) ==
  IF rows = {} THEN 0
  ELSE LET i == CHOOSE x \in rows : TRUE
           a == w.data[L_Amount][i]
       IN  (IF a.k = "float" THEN a.v ELSE 0) + SumAmounts(w, rows \ {i})

RowsOfType(w, t) == {i \in 1..w.n : w.data[L_Type][i] = Str(t)}

\* Lines 129-132: the four summary values.
SummaryOf(w) ==
  LET stamps == {w.data[L_DateTime][i] : i \in 1..w.n} \ {NaT}
      Before(a, b) == a.y < b.y \/ (a.y = b.y /\ (a.m < b.m \/ (a.m = b.m /\ a.d <= b.d)))
  IN  [total_debit |-> SumAmounts(w, RowsOfType(w, S_debit)),
       total_credit |-> SumAmounts(w, RowsOfType(w, S_credit)),
       txn_count |-> w.n,
       last_update |-> IF stamps = {} THEN NaT
                       ELSE CHOOSE s \in stamps : \A o \in stamps : Before(o, s)]

\* Line 140: the debit rows grouped by Date (rows without a date fall out of
\* the grouping), Amount summed per date.
Daily(w) ==
  LET rows == {i \in RowsOfType(w, S_debit) : w.data[L_Date][i] # NaT}
      dates == {w.data[L_Date][i] : i \in rows}
  IN  [d \in dates |-> SumAmounts(w, {i \in rows : w.data[L_Date][i] = d})]

\* Line 145: all rows grouped by (Month, Type), Amount summed per group.
Monthly(w) ==
  LET keys == {<<w.data[L_Month][i].s, w.data[L_Type][i].s>> : i \in 1..w.n}
  IN  [key \in keys |->
         SumAmounts(w, {i \in 1..w.n : /\ w.data[L_Month][i].s = key[1]
                                       /\ w.data[L_Type][i].s = key[2]})]

\* FillNa as it would be without the .fillna(0).
FillNa_keep(v) == v

\* .fillna(0) on one cell of the pivot.
FillNa(v) == IF v = NaN THEN Float(0) ELSE v

\* Line 147: pivot(index="Month", columns="Type", values="Amount").fillna(0):
\* the months and the types, each in ascending order, and one cell per pair.
Pivot(m) ==
  LET months == {key[1] : key \in DOMAIN m}
      types == {key[2] : key \in DOMAIN m}
  IN  [index |-> SortStrs(months),
       columns |-> SortStrs(types),
       cell |-> [key \in months \X types |->
                   FillNa(IF key \in DOMAIN m THEN Float(m[key]) ELSE NaN)]]

NoPivot == [index |-> <<>>, columns |-> <<>>, cell |-> <<>>]

\* ------------------------------------------------------- the outside world

\* Seconds of the two time-to-live settings.
TTL_CLIENT == 300
TTL_SHEET == 60

\* The seconds that may pass between two user events.
Elapsed == {50, 250}

SheetIds == {<<>>, <<"s", "1">>}

W_Jan == <<"J", "a", "n">>
W_Feb == <<"F", "e", "b">>
W_Zzz == <<"Z", "z", "z">>

\* The worksheets of the spreadsheet, in tab order.
ServiceTitles == <<W_Jan, W_Feb>>

\* What the user may type into the worksheet-name box.
Overrides == {<<>>, <<"Z", "z", "z", " ">>}

Names == {None, W_Jan, W_Feb, W_Zzz}

H_Date == <<"D", "a", "t", "e">>
H_Amount == <<"A", "m", "o", "u", "n", "t">>

C_Jan05 == Str(<<"2", "0", "2", "4", "-", "0", "1", "-", "0", "5">>)
C_Feb10 == Str(<<"2", "0", "2", "4", "-", "0", "2", "-", "1", "0">>)
C_BadDate == Str(<<"n", "o", "t", "-", "a", "-", "d", "a", "t", "e">>)
C_Empty == Str(<<>>)

\* The records of each worksheet while it has data rows, as
\* DataFrame.from_records(get_all_records()) gives them.
TableOf(title) ==
  IF title = W_Jan
  THEN Frame(<<H_Date, H_Amount>>,
             [c \in {H_Date, H_Amount} |->
                IF c = H_Date THEN <<C_Jan05>> ELSE <<Num(0 - 50)>>], 1)
  ELSE Frame(<<H_Date, H_Amount>>,
             [c \in {H_Date, H_Amount} |->
                IF c = H_Date THEN <<C_Feb10, C_BadDate>> ELSE <<Num(20), C_Empty>>], 2)

\* The value the deployment stores under st.secrets["gcp_service_account"],
\* by shape.
Secrets == {"absent", "mapping", "json", "escaped_json", "garbage"}

\* load_service_account_from_secrets: TRUE when a credential description is
\* returned, FALSE when the lookup or both parses raise.
load_service_account_from_secrets(s) ==
  IF s = "absent" THEN FALSE              \* KeyError
  ELSE IF s = "mapping" THEN TRUE         \* returned as is
  ELSE IF s = "json" THEN TRUE            \* first json.loads
  ELSE IF s = "escaped_json" THEN TRUE    \* json.loads after replacing \\n
  ELSE FALSE                              \* the second json.loads raises

\* ------------------------------------------------------------------ caches

NoEntry == [k |-> "none"]
Entry(v, a) == [k |-> "entry", val |-> v, age |-> a]

\* Fresh as it would be if entries never expired.
Fresh_noExpiry(e, ttl) == e.k = "entry"

\* st.cache_data(ttl=...): an entry answers a call while it is younger than
\* its time-to-live.
Fresh(e, ttl) == e.k = "entry" /\ e.age < ttl

Min(a, b) == IF a < b THEN a ELSE b

\* An entry d seconds later (ages beyond the time-to-live are not told apart).
Aged(e, d, ttl) == IF e.k = "entry" THEN Entry(e.val, Min(e.age + d, ttl)) ELSE e

\* get_gspread_client under its cache: the cache afterwards, whether the call
\* raised, and the number of credential resolutions it made.
get_gspread_client(cache, s) ==
  IF Fresh(cache, TTL_CLIENT)
  THEN [raised |-> FALSE, cache |-> cache, attempts |-> 0]
  ELSE IF load_service_account_from_secrets(s)
       THEN [raised |-> FALSE, cache |-> Entry("gc", 0), attempts |-> 1]
       ELSE [raised |-> TRUE, cache |-> cache, attempts |-> 1]

\* The body of get_sheet_titles (lines 50-54).  openOK: open_by_key and
\* worksheets() answer.
get_sheet_titles(sheet_id, cache, s, openOK) ==
  IF sheet_id = <<>>
  THEN [raised |-> FALSE, val |-> <<>>, client |-> cache, attempts |-> 0, contact |-> FALSE]
  ELSE LET gc == get_gspread_client(cache, s)
       IN  IF gc.raised
           THEN [raised |-> TRUE, val |-> <<>>, client |-> gc.cache,
                 attempts |-> gc.attempts, contact |-> FALSE]
           ELSE IF ~openOK
           THEN [raised |-> TRUE, val |-> <<>>, client |-> gc.cache,
                 attempts |-> gc.attempts, contact |-> TRUE]
           ELSE [raised |-> FALSE, val |-> ServiceTitles, client |-> gc.cache,
                 attempts |-> gc.attempts, contact |-> TRUE]

\* What the service answers during one load: whether open_by_key,
\* worksheet(name), the first and the second get_worksheet(0) and
\* get_all_records succeed, and whether the worksheet read has data rows.
Answers ==
  [open : BOOLEAN, lookup : BOOLEAN, first : BOOLEAN, again : BOOLEAN,
   read : BOOLEAN, rows : BOOLEAN]

\* failure: what went wrong during the call, "none" when nothing did.
LoadResult(raised, d, err, gc, contact, failure, ws) ==
  [raised |-> raised, df |-> d, error |-> err, client |-> gc.cache,
   attempts |-> gc.attempts, contact |-> contact, failure |-> failure,
   ws_used |-> ws]

\* SelectWorksheet as it would be if the except branch took the last tab.
SelectWorksheet_lastTab(worksheet_name, a) ==
  IF worksheet_name # None /\ worksheet_name # <<>>
  THEN IF a.lookup /\ worksheet_name \in Range(ServiceTitles)
       THEN worksheet_name
       ELSE IF a.again THEN ServiceTitles[Len(ServiceTitles)]
       ELSE None
  ELSE IF a.first THEN ServiceTitles[1]
       ELSE IF a.again THEN ServiceTitles[Len(ServiceTitles)]
       ELSE None

\* Lines 66-69: the worksheet that is read, None when the selection raises.
SelectWorksheet(worksheet_name, a) ==
  IF worksheet_name # None /\ worksheet_name # <<>>
  THEN IF a.lookup /\ worksheet_name \in Range(ServiceTitles)
       THEN worksheet_name                       \* sh.worksheet(worksheet_name)
       ELSE IF a.again THEN ServiceTitles[1]     \* except: sh.get_worksheet(0)
       ELSE None
  ELSE IF a.first THEN ServiceTitles[1]          \* sh.get_worksheet(0)
       ELSE IF a.again THEN ServiceTitles[1]     \* except: sh.get_worksheet(0)
       ELSE None

\* Lines 70-71: the records of a worksheet as a frame.
Records(ws, a) == IF a.rows THEN TableOf(ws) ELSE EmptyFrame

\* load_sheet_as_df as it would be with get_gspread_client() inside the try
\* block of the open: a credential failure is reported like a failed open.
load_sheet_as_df_swallow(sheet_id, worksheet_name, cache, s, a) ==
  IF sheet_id = <<>>
  THEN LoadResult(FALSE, EmptyFrame, FALSE, [cache |-> cache, attempts |-> 0],
                  FALSE, "none", None)
  ELSE LET gc == get_gspread_client(cache, s)
           ws == SelectWorksheet(worksheet_name, a)
       IN  IF gc.raised
           THEN LoadResult(FALSE, EmptyFrame, TRUE, gc, FALSE, "credentials", None)
           ELSE IF ~a.open
           THEN LoadResult(FALSE, EmptyFrame, TRUE, gc, TRUE, "open", None)
           ELSE IF ws = None
           THEN LoadResult(TRUE, EmptyFrame, FALSE, gc, TRUE, "worksheet", None)
           ELSE IF ~a.read
           THEN LoadResult(TRUE, EmptyFrame, FALSE, gc, TRUE, "read", ws)
           ELSE LoadResult(FALSE, Records(ws, a), FALSE, gc, TRUE, "none", ws)

\* The body of load_sheet_as_df (lines 58-72).
load_sheet_as_df(sheet_id, worksheet_name, cache, s, a) ==
  IF sheet_id = <<>>
  THEN LoadResult(FALSE, EmptyFrame, FALSE, [cache |-> cache, attempts |-> 0],
                  FALSE, "none", None)
  ELSE LET gc == get_gspread_client(cache, s)
           ws == SelectWorksheet(worksheet_name, a)
       IN  IF gc.raised
           THEN LoadResult(TRUE, EmptyFrame, FALSE, gc, FALSE, "credentials", None)
           ELSE IF ~a.open
           THEN LoadResult(FALSE, EmptyFrame, TRUE, gc, TRUE, "open", None)
           ELSE IF ws = None
           THEN LoadResult(TRUE, EmptyFrame, FALSE, gc, TRUE, "worksheet", None)
           ELSE IF ~a.read
           THEN LoadResult(TRUE, EmptyFrame, FALSE, gc, TRUE, "read", ws)
           ELSE LoadResult(FALSE, Records(ws, a), FALSE, gc, TRUE, "none", ws)

\* ------------------------------------------------------------------- state

\* The number of interactions a behaviour of the model holds.
MaxRuns == 2

VARIABLES
  secret,               \* st.secrets["gcp_service_account"], by shape
  clientCache,          \* the cache of get_gspread_client
  titlesCache,          \* the cache of get_sheet_titles, by sheet_id
  dfCache,              \* the cache of load_sheet_as_df, by (sheet_id, worksheet_name)
  SHEET_ID,             \* the sidebar text input
  sheet_name_override,  \* the sidebar text input
  refresh,              \* the sidebar button
  pc,                   \* where the script run is
  worksheet_titles,
  selected_sheet,
  df,
  col_map,
  date_col,
  amount_col,
  type_col,
  message_col,
  work,
  summary,              \* total_debit, total_credit, txn_count, last_update
  daily,
  monthly_pivot,
  rendered,             \* the elements the current run has put on the page
  obs,                  \* what happened in the current interaction
  runs                  \* interactions so far

widgets == <<SHEET_ID, sheet_name_override, refresh>>
caches == <<clientCache, titlesCache, dfCache>>
schema == <<col_map, date_col, amount_col, type_col, message_col>>
derived == <<work, summary, daily, monthly_pivot>>
vars ==
  <<secret, caches, widgets, pc, worksheet_titles, selected_sheet, df, schema,
    derived, rendered, obs, runs>>

\* Nothing has happened yet in the interaction.
NoObs ==
  [refreshed |-> FALSE, titlesHow |-> "none", titlesContact |-> FALSE,
   titlesFailure |-> "none", loadHow |-> "none", loadContact |-> FALSE,
   loadFailure |-> "none", attempts |-> 0, lookup |-> "none", ws_used |-> None]

NoSummary == [total_debit |-> 0, total_credit |-> 0, txn_count |-> 0, last_update |-> NaT]

\* The locals of a script run before its first statement.
FreshRun ==
  /\ worksheet_titles' = <<>>
  /\ selected_sheet' = None
  /\ df' = EmptyFrame
  /\ col_map' = <<>>
  /\ date_col' = None
  /\ amount_col' = None
  /\ type_col' = None
  /\ message_col' = None
  /\ work' = EmptyFrame
  /\ summary' = NoSummary
  /\ daily' = <<>>
  /\ monthly_pivot' = NoPivot
  /\ rendered' = {}

Resting == pc \in {"idle", "done", "stopped", "aborted"}

Init ==
  /\ secret \in Secrets
  /\ clientCache = NoEntry
  /\ titlesCache = [s \in SheetIds |-> NoEntry]
  /\ dfCache = [key \in SheetIds \X Names |-> NoEntry]
  /\ SHEET_ID = <<>>
  /\ sheet_name_override = <<>>
  /\ refresh = FALSE
  /\ pc = "idle"
  /\ worksheet_titles = <<>>
  /\ selected_sheet = None
  /\ df = EmptyFrame
  /\ col_map = <<>>
  /\ date_col = None
  /\ amount_col = None
  /\ type_col = None
  /\ message_col = None
  /\ work = EmptyFrame
  /\ summary = NoSummary
  /\ daily = <<>>
  /\ monthly_pivot = NoPivot
  /\ rendered = {}
  /\ obs = NoObs
  /\ runs = 0

\* ----------------------------------------------------------------- actions

\* Lines 14-16: a user event (an edited input, a click on "Refresh now")
\* starts a script run from the top.  Since the last event d seconds have
\* passed, in which every cache entry has grown older.
Interact ==
  /\ Resting
  /\ runs < MaxRuns
  /\ \E d \in Elapsed :
       /\ clientCache' = Aged(clientCache, d, TTL_CLIENT)
       /\ titlesCache' = [s \in DOMAIN titlesCache |-> Aged(titlesCache[s], d, TTL_SHEET)]
       /\ dfCache' = [key \in DOMAIN dfCache |-> Aged(dfCache[key], d, TTL_SHEET)]
  /\ UNCHANGED secret
  /\ \E sid \in SheetIds, ovr \in Overrides, click \in BOOLEAN :
       /\ SHEET_ID' = sid
       /\ sheet_name_override' = ovr
       /\ refresh' = click
       /\ obs' = [NoObs EXCEPT !.refreshed = click]
  /\ runs' = runs + 1
  /\ pc' = "rerun_check"
  /\ FreshRun

\* Lines 74-75: st.experimental_rerun() ends this run and starts the script
\* again; in the new run the button reads False.
st_experimental_rerun ==
  /\ refresh' = FALSE
  /\ pc' = "rerun_check"
  /\ FreshRun
  /\ UNCHANGED <<secret, SHEET_ID, sheet_name_override, caches>>

RefreshCheck ==
  /\ pc = "rerun_check"
  /\ IF refresh
     THEN st_experimental_rerun
     ELSE /\ pc' = "titles"
          /\ UNCHANGED <<secret, caches, widgets, worksheet_titles, selected_sheet, df,
                         schema, derived, rendered>>
  /\ UNCHANGED <<obs, runs>>

\* Lines 77-82: the worksheet titles, through the cache of get_sheet_titles;
\* whatever the call raises is swallowed.
ListTitles ==
  /\ pc = "titles"
  /\ pc' = "select"
  /\ IF SHEET_ID = <<>>
     THEN /\ worksheet_titles' = <<>>
          /\ UNCHANGED <<caches, obs>>
     ELSE IF Fresh(titlesCache[SHEET_ID], TTL_SHEET)
     THEN /\ worksheet_titles' = titlesCache[SHEET_ID].val
          /\ obs' = [obs EXCEPT !.titlesHow = "hit"]
          /\ UNCHANGED caches
     ELSE \E openOK \in BOOLEAN :
            LET r == get_sheet_titles(SHEET_ID, clientCache, secret, openOK)
            IN  /\ clientCache' = r.client
                /\ titlesCache' = IF r.raised THEN titlesCache
                                  ELSE [titlesCache EXCEPT ![SHEET_ID] = Entry(r.val, 0)]
                /\ worksheet_titles' = IF r.raised THEN <<>> ELSE r.val
                /\ obs' = [obs EXCEPT
                             !.titlesHow = IF r.raised THEN "raised" ELSE "miss",
                             !.titlesContact = r.contact,
                             !.titlesFailure = IF ~r.raised THEN "none"
                                               ELSE IF r.contact THEN "open" ELSE "credentials",
                             !.attempts = @ + r.attempts]
                /\ UNCHANGED dfCache
  /\ UNCHANGED <<secret, widgets, selected_sheet, df, schema, derived, rendered, runs>>

\* Lines 84-88: the selectbox (shown when there are titles) and the override.
SelectSheet ==
  /\ pc = "select"
  /\ pc' = "load"
  /\ \E choice \in (IF worksheet_titles = <<>> THEN {None} ELSE Range(worksheet_titles)) :
       selected_sheet' = IF Strip(sheet_name_override) # <<>>
                         THEN Strip(sheet_name_override) ELSE choice
  /\ UNCHANGED <<secret, caches, widgets, worksheet_titles, df, schema, derived,
                 rendered, obs, runs>>

\* Line 90: the records, through the cache of load_sheet_as_df.  An entry
\* keeps the frame and the st.error element the call produced, which is shown
\* again when the entry answers.  An exception ends the run.
LoadSheet ==
  /\ pc = "load"
  /\ LET key == <<SHEET_ID, selected_sheet>>
     IN  IF Fresh(dfCache[key], TTL_SHEET)
         THEN /\ df' = dfCache[key].val.df
              /\ rendered' = rendered \cup (IF dfCache[key].val.error THEN {"error"} ELSE {})
              /\ obs' = [obs EXCEPT !.loadHow = "hit"]
              /\ pc' = "check"
              /\ UNCHANGED caches
         ELSE \E a \in Answers :
                LET r == load_sheet_as_df(SHEET_ID, selected_sheet, clientCache, secret, a)
                IN  /\ clientCache' = r.client
                    /\ dfCache' = IF r.raised THEN dfCache
                                  ELSE [dfCache EXCEPT ![key] =
                                          Entry([df |-> r.df, error |-> r.error], 0)]
                    /\ df' = IF r.raised THEN df ELSE r.df
                    /\ rendered' = rendered \cup (IF r.error THEN {"error"} ELSE {})
                    /\ obs' = [obs EXCEPT
                                 !.loadHow = IF r.raised THEN "raised" ELSE "miss",
                                 !.loadContact = r.contact,
                                 !.loadFailure = r.failure,
                                 !.attempts = @ + r.attempts,
                                 !.lookup =
                                   IF selected_sheet = None THEN "none"
                                   ELSE IF a.lookup /\ selected_sheet \in Range(ServiceTitles)
                                   THEN "ok" ELSE "failed",
                                 !.ws_used = r.ws_used]
                    /\ pc' = IF r.raised THEN "aborted" ELSE "check"
                    /\ UNCHANGED titlesCache
  /\ UNCHANGED <<secret, widgets, worksheet_titles, selected_sheet, schema, derived, runs>>

\* Lines 91-96: an empty frame shows the prompt and stops the run; otherwise
\* the raw preview is shown.
CheckEmpty ==
  /\ pc = "check"
  /\ IF IsEmpty(df)
     THEN /\ rendered' = rendered \cup {"info"}
          /\ pc' = "stopped"
     ELSE /\ rendered' = rendered \cup {"raw_preview"}
          /\ pc' = "infer"
  /\ UNCHANGED <<secret, caches, widgets, worksheet_titles, selected_sheet, df, schema,
                 derived, obs, runs>>

\* Lines 98-102: the column roles.
InferColumns ==
  /\ pc = "infer"
  /\ pc' = "normalize"
  /\ col_map' = ColMap(df.columns)
  /\ date_col' = DateCol(col_map')
  /\ amount_col' = AmountCol(col_map')
  /\ type_col' = TypeCol(col_map')
  /\ message_col' = MessageCol(col_map')
  /\ UNCHANGED <<secret, caches, widgets, worksheet_titles, selected_sheet, df, derived,
                 rendered, obs, runs>>

\* Lines 104-124: the working table.
NormalizeStep ==
  /\ pc = "normalize"
  /\ pc' = "metrics"
  /\ work' = Normalize(df, amount_col, date_col, type_col)
  /\ UNCHANGED <<secret, caches, widgets, worksheet_titles, selected_sheet, df, schema,
                 summary, daily, monthly_pivot, rendered, obs, runs>>

\* Lines 126-136: the four summary metrics.
SummaryMetrics ==
  /\ pc = "metrics"
  /\ pc' = "charts"
  /\ summary' = SummaryOf(work)
  /\ rendered' = rendered \cup {"metrics"}
  /\ UNCHANGED <<secret, caches, widgets, worksheet_titles, selected_sheet, df, schema,
                 work, daily, monthly_pivot, obs, runs>>

\* Lines 138-150: the daily line chart and the monthly stacked bars, each
\* drawn when its table has rows.
Charts ==
  /\ pc = "charts"
  /\ pc' = "export"
  /\ daily' = Daily(work)
  /\ LET monthly == Monthly(work)
     IN  /\ monthly_pivot' = IF DOMAIN monthly # {} THEN Pivot(monthly) ELSE NoPivot
         /\ rendered' = rendered
                          \cup (IF DOMAIN daily' # {} THEN {"chart_daily"} ELSE {})
                          \cup (IF DOMAIN monthly # {} THEN {"chart_monthly"} ELSE {})
  /\ UNCHANGED <<secret, caches, widgets, worksheet_titles, selected_sheet, df, schema,
                 work, summary, obs, runs>>

\* Lines 152-156: the cleaned preview and the CSV download.
Export ==
  /\ pc = "export"
  /\ pc' = "done"
  /\ rendered' = rendered \cup {"clean_preview", "download"}
  /\ UNCHANGED <<secret, caches, widgets, worksheet_titles, selected_sheet, df, schema,
                 derived, obs, runs>>

Pipeline == InferColumns \/ NormalizeStep \/ SummaryMetrics \/ Charts \/ Export

Next ==
  \/ Interact
  \/ RefreshCheck
  \/ ListTitles
  \/ SelectSheet
  \/ LoadSheet
  \/ CheckEmpty
  \/ Pipeline

Spec == Init /\ [][Next]_vars

\* ------------------------------------------- the pipeline on bounded tables

\* The largest number of data rows of an input table.
MaxRows == 2

\* The largest number of columns of a header list.
MaxCols == 3

H_DATE == <<"D", "A", "T", "E">>
H_date == <<"d", "a", "t", "e">>
H_DateTime == <<"D", "a", "t", "e", "T", "i", "m", "e">>
H_datetime == <<"d", "a", "t", "e", "t", "i", "m", "e">>
H_amount == <<"a", "m", "o", "u", "n", "t">>
H_Amt == <<"A", "m", "t">>
H_amt == <<"a", "m", "t">>
H_Type == <<"T", "y", "p", "e">>
H_TYPE == <<"T", "Y", "P", "E">>
H_Msg == <<"M", "s", "g">>
H_timestamp == <<"t", "i", "m", "e", "s", "t", "a", "m", "p">>
H_value == <<"v", "a", "l", "u", "e">>
H_note == <<"n", "o", "t", "e">>

C_Text == Str(<<"x">>)
C_Twelve == Str(<<"1", "2">>)
C_Debit == Str(<<"D", "e", "b", "i", "t", " ">>)
C_credit == Str(<<"c", "r", "e", "d", "i", "t">>)
C_CREDIT == Str(<<" ", "C", "R", "E", "D", "I", "T">>)
C_transfer == Str(<<"t", "r", "a", "n", "s", "f", "e", "r">>)

DateCells == {C_Jan05, C_Feb10, C_BadDate}

Col(h, cells) == [h |-> h, cells |-> cells]

\* The sheets of the pipeline's inputs: per column, the header and the cells
\* the column may hold.
InputSheets ==
  { <<Col(H_Date, DateCells), Col(H_Amount, {Num(0 - 5), Num(7), C_Empty}),
      Col(H_Type, {C_Debit, C_credit})>>,
    <<Col(H_Date, DateCells), Col(H_amount, {Num(0 - 5), Num(0), Num(7), C_Empty})>>,
    <<Col(H_DATE, DateCells), Col(H_date, DateCells)>>,
    <<Col(H_Date, DateCells), Col(H_DateTime, DateCells)>>,
    <<Col(H_timestamp, {C_Jan05, C_BadDate}), Col(H_value, {Num(0 - 5), Num(0), Num(7), C_Text})>>,
    <<Col(H_amt, {Num(0 - 5), C_Twelve, C_Empty}), Col(H_datetime, {C_Feb10, C_BadDate})>>,
    <<Col(H_Amt, {Num(0 - 5), Num(7)}), Col(H_Amount, {Num(3), C_Empty})>>,
    <<Col(H_TYPE, {C_Debit, C_CREDIT, C_transfer}), Col(H_amount, {Num(0 - 5), Num(7)})>>,
    <<Col(H_note, {C_Text, C_Empty})>> }

RECURSIVE ColumnData(_, _)
\* Every assignment of n cells to each column of a sheet.
ColumnData(sheet, n) ==
  IF sheet = <<>> THEN {<<>>}
  ELSE LET c == Head(sheet)
       IN  { [h \in (DOMAIN rest) \cup {c.h} |-> IF h = c.h THEN s ELSE rest[h]] :
               rest \in ColumnData(Tail(sheet), n), s \in [1..n -> c.cells] }

InputTables ==
  UNION { { Frame([i \in 1..Len(sheet) |-> sheet[i].h], d, n) : d \in ColumnData(sheet, n) } :
            sheet \in InputSheets, n \in 1..MaxRows }

HeaderUniverse ==
  {H_Date, H_DATE, H_date, H_DateTime, H_datetime, H_Amount, H_amt, H_Type, H_Msg, H_value}

\* The header lists without a repeated header, of at most MaxCols columns.
HeaderLists ==
  UNION { { s \in [1..n -> HeaderUniverse] : \A i, j \in 1..n : s[i] = s[j] => i = j } :
            n \in 1..MaxCols }

\* A one-row table under a header list.
HeaderTable(cols) == Frame(cols, [c \in Range(cols) |-> <<C_Empty>>], 1)

\* A run that has loaded the table d and shown its preview.
Loaded(d) ==
  /\ secret = "mapping"
  /\ clientCache = NoEntry
  /\ titlesCache = [s \in SheetIds |-> NoEntry]
  /\ dfCache = [key \in SheetIds \X Names |-> NoEntry]
  /\ SHEET_ID = <<"s", "1">>
  /\ sheet_name_override = <<>>
  /\ refresh = FALSE
  /\ pc = "infer"
  /\ worksheet_titles = <<>>
  /\ selected_sheet = None
  /\ df = d
  /\ col_map = <<>>
  /\ date_col = None
  /\ amount_col = None
  /\ type_col = None
  /\ message_col = None
  /\ work = EmptyFrame
  /\ summary = NoSummary
  /\ daily = <<>>
  /\ monthly_pivot = NoPivot
  /\ rendered = {"raw_preview"}
  /\ obs = NoObs
  /\ runs = 1

InitNorm == \E d \in InputTables : Loaded(d)

\* Lines 98-156 on every input table.
SpecNorm == InitNorm /\ [][Pipeline]_vars

InitInfer == \E cols \in HeaderLists : Loaded(HeaderTable(cols))

\* Lines 98-102 on every header list.
SpecInfer == InitInfer /\ [][InferColumns]_vars

\* ------------------------------------------------------------------ claims

Normalized == pc \in {"metrics", "charts", "export", "done"}

DerivedLabels == {L_Amount, L_DateTime, L_Date, L_Month, L_Weekday, L_Type}

\* The amount the script takes from row i of the raw table.
C1_AmountOfRow(i) ==
  IF amount_col \in Range(df.columns) THEN ToNumericCell(df.data[amount_col][i])
  ELSE IF \E c \in Range(df.columns) : \A r \in 1..df.n : df.data[c][r].k = "num"
  THEN LET j == CHOOSE x \in 1..Len(df.columns) :
                  /\ \A r \in 1..df.n : df.data[df.columns[x]][r].k = "num"
                  /\ \A y \in 1..(x - 1) : \E r \in 1..df.n : df.data[df.columns[y]][r].k # "num"
       IN  ToNumericCell(df.data[df.columns[j]][i])
  ELSE NA

\* C1: the working table has exactly the rows of the raw table, in the raw
\* order: every column of it has one value per raw row, the raw columns that
\* no derived column replaces are unchanged, and the derived values of row i
\* (Amount, DateTime, Date, Month, Weekday, Type) come from row i of the raw
\* table, rows with an unparseable amount or date included.
C1_RowsPreserved ==
  Normalized =>
    /\ work.n = df.n
    /\ DOMAIN work.data = Range(work.columns)
    /\ \A c \in Range(work.columns) : Len(work.data[c]) = df.n
    /\ \A i \in 1..Len(df.columns) : work.columns[i] = df.columns[i]
    /\ \A c \in Range(df.columns) \ DerivedLabels : work.data[c] = df.data[c]
    /\ \A i \in 1..df.n :
         LET stamp == IF date_col \in Range(df.columns)
                      THEN ToDatetimeCell(df.data[date_col][i]) ELSE NaT
         IN  /\ work.data[L_Amount][i] = C1_AmountOfRow(i)
             /\ work.data[L_DateTime][i] = stamp
             /\ work.data[L_Date][i] =
                  (IF stamp = NaT THEN NaT ELSE DateOf(stamp.y, stamp.m, stamp.d))
             /\ work.data[L_Month][i] = Str(MonthLabel(stamp))
             /\ (stamp = NaT => work.data[L_Weekday][i] = NaN)
             /\ (stamp # NaT => work.data[L_Weekday][i].k = "str")
             /\ (type_col \in Range(df.columns) =>
                   work.data[L_Type][i] = Str(Strip(Lower(AsStr(df.data[type_col][i])))))

\* A two-row table is normalised whose second row has neither a parseable
\* amount nor a parseable date, and whose first row has both.
C1_Witness ==
  /\ pc = "done"
  /\ df.n = 2
  /\ work.data[L_Amount][1].k = "float"
  /\ work.data[L_DateTime][1].k = "ts"
  /\ work.data[L_Amount][2] = NaN
  /\ work.data[L_DateTime][2] = NaT

\* C2: without a type column, Type is "debit" exactly for a defined negative
\* Amount, "credit" exactly for a defined positive Amount, and "unknown"
\* exactly for an undefined or zero Amount.
C2_SignInference ==
  (Normalized /\ type_col \notin Range(df.columns)) =>
    \A i \in 1..work.n :
      LET a == work.data[L_Amount][i]
          ty == work.data[L_Type][i]
          defined == a.k = "float"
      IN  /\ (ty = Str(S_debit)) <=> (defined /\ a.v < 0)
          /\ (ty = Str(S_credit)) <=> (defined /\ a.v > 0)
          /\ (ty = Str(S_unknown)) <=> (~defined \/ a.v = 0)
          /\ ty \in {Str(S_debit), Str(S_credit), Str(S_unknown)}

\* Without a type column, one row is a debit and the other, with a zero
\* amount, stays unknown.
C2_Witness ==
  /\ pc = "done"
  /\ type_col = None
  /\ work.n = 2
  /\ work.data[L_Type][1] = Str(S_debit)
  /\ work.data[L_Amount][2] = Float(0)
  /\ work.data[L_Type][2] = Str(S_unknown)

\* The last column whose lower-cased header is one of the keys, None when
\* there is none; the keys are tried in order.
C3_LastWith(key) ==
  LET at == {i \in 1..Len(df.columns) : Lower(df.columns[i]) = key}
  IN  IF at = {} THEN None
      ELSE df.columns[CHOOSE i \in at : \A j \in at : j <= i]

\* C3: a header equal, ignoring case, to "datetime" or "date" makes the date
\* role resolve to a header of the table, the "datetime" one when there is
\* one; among headers with the same lower-cased text the last one is taken;
\* a role without a matching header is None.
C3_DateRole ==
  pc = "normalize" =>
    /\ ((\E c \in Range(df.columns) : Lower(c) \in {S_datetime, S_date})
          => date_col \in Range(df.columns))
    /\ ((\E c \in Range(df.columns) : Lower(c) = S_datetime)
          => Lower(date_col) = S_datetime)
    /\ date_col = (IF C3_LastWith(S_datetime) # None THEN C3_LastWith(S_datetime)
                   ELSE C3_LastWith(S_date))
    /\ amount_col = (IF C3_LastWith(S_amount) # None THEN C3_LastWith(S_amount)
                     ELSE C3_LastWith(S_amt))
    /\ type_col = C3_LastWith(S_type)
    /\ message_col = (IF C3_LastWith(S_message) # None THEN C3_LastWith(S_message)
                      ELSE C3_LastWith(S_msg))

\* Two headers read "date" when lower-cased and the later one is the date
\* column, while no header names an amount.
C3_Witness ==
  /\ pc = "normalize"
  /\ \E i, j \in 1..Len(df.columns) :
       /\ i < j
       /\ Lower(df.columns[i]) = S_date
       /\ Lower(df.columns[j]) = S_date
       /\ date_col = df.columns[j]
  /\ amount_col = None

\* C4: an interaction started by the refresh button gets neither the titles
\* nor the rows from a memoized entry.
C4_RefreshBypassesCache ==
  obs.refreshed => (obs.titlesHow # "hit" /\ obs.loadHow # "hit")

\* C5: a failure to open the spreadsheet or to read the worksheet's rows ends
\* in an error message and an empty table, not in an exception.
C5_AccessFailuresCaught ==
  obs.loadFailure \in {"open", "read"} =>
    (pc # "aborted" /\ IsEmpty(df) /\ "error" \in rendered)

C6_TitlesStep ==
  (pc = "titles" /\ SHEET_ID # <<>>) =>
    LET e == titlesCache[SHEET_ID]
    IN  IF e.k = "entry" /\ e.age < TTL_SHEET
        THEN /\ worksheet_titles' = e.val
             /\ titlesCache' = titlesCache
             /\ obs'.titlesHow = "hit"
             /\ ~obs'.titlesContact
        ELSE /\ obs'.titlesHow \in {"miss", "raised"}
             /\ (obs'.titlesHow = "miss" =>
                   /\ obs'.titlesContact
                   /\ titlesCache'[SHEET_ID] = Entry(worksheet_titles', 0))

C6_LoadStep ==
  pc = "load" =>
    LET key == <<SHEET_ID, selected_sheet>>
        e == dfCache[key]
    IN  IF e.k = "entry" /\ e.age < TTL_SHEET
        THEN /\ df' = e.val.df
             /\ dfCache' = dfCache
             /\ obs'.loadHow = "hit"
             /\ ~obs'.loadContact
        ELSE /\ obs'.loadHow \in {"miss", "raised"}
             /\ (obs'.loadHow = "miss" =>
                   /\ (SHEET_ID # <<>> => obs'.loadContact)
                   /\ dfCache'[key].age = 0
                   /\ dfCache'[key].val.df = df')

\* C6: a call of get_sheet_titles or load_sheet_as_df whose arguments have an
\* entry younger than 60 seconds returns the entry's value without contacting
\* the spreadsheet service; a call whose entry is missing or has expired runs
\* the function and, when it returns, stores the new value.
C6_Memoized == [][C6_TitlesStep /\ C6_LoadStep]_vars

\* In a second interaction both calls were answered from the cache and the
\* dashboard was drawn from the cached rows.
C6_Witness ==
  /\ runs = 2
  /\ obs.titlesHow = "hit"
  /\ obs.loadHow = "hit"
  /\ pc = "done"

Dashboard ==
  {"raw_preview", "metrics", "chart_daily", "chart_monthly", "clean_preview", "download"}

\* C7: when the load has returned an empty table the run shows the prompt and
\* stops: no part of the dashboard is rendered.
C7_EmptyLoadHalts ==
  (obs.loadHow \in {"hit", "miss"} /\ (df.n = 0 \/ Len(df.columns) = 0)) =>
    /\ pc \in {"check", "stopped"}
    /\ rendered \cap Dashboard = {}
    /\ (pc = "stopped" => "info" \in rendered)

\* The spreadsheet could not be opened: the run has stopped with the error
\* message and the prompt on the page.
C7_Witness ==
  /\ pc = "stopped"
  /\ obs.loadFailure = "open"
  /\ rendered = {"error", "info"}

\* C8 as stated: a credential failure aborts the interaction, never lets it
\* go on past the load, and is not followed by another resolution attempt.
C8_FatalAndNotRetried ==
  (obs.titlesFailure = "credentials" \/ obs.loadFailure = "credentials") =>
    /\ obs.attempts <= 1
    /\ pc \notin {"check", "stopped", "infer", "normalize", "metrics", "charts",
                  "export", "done"}

\* C8, amended: a credential failure while load_sheet_as_df is computed aborts
\* the interaction with nothing rendered and no table; a credential failure
\* while get_sheet_titles is computed only empties the title list, and the
\* interaction makes at most two resolution attempts.
C8_LoadFailureAborts ==
  /\ (obs.loadFailure = "credentials" =>
        /\ pc = "aborted"
        /\ rendered = {}
        /\ df = EmptyFrame)
  /\ (obs.titlesFailure = "credentials" => worksheet_titles = <<>>)
  /\ obs.attempts <= 2

\* The credentials failed in get_sheet_titles, were resolved again by
\* load_sheet_as_df, failed again, and the interaction was aborted.
C8_Witness ==
  /\ pc = "aborted"
  /\ obs.titlesFailure = "credentials"
  /\ obs.loadFailure = "credentials"
  /\ obs.attempts = 2

\* C9: once the spreadsheet is open, the rows come from the named worksheet
\* when a name is given and its lookup succeeds, and from the first worksheet
\* when no name is given or the lookup of the name fails.
C9_WorksheetChoice ==
  (obs.loadHow = "miss" /\ SHEET_ID # <<>> /\ obs.loadFailure = "none") =>
    /\ (obs.lookup = "ok" => obs.ws_used = selected_sheet)
    /\ (obs.lookup = "none" => (selected_sheet = None /\ obs.ws_used = ServiceTitles[1]))
    /\ (obs.lookup = "failed" => obs.ws_used = ServiceTitles[1])
    /\ obs.ws_used \in {selected_sheet, ServiceTitles[1]}
    /\ df \in {TableOf(obs.ws_used), EmptyFrame}

\* The override names no worksheet of the spreadsheet and the rows of the
\* first worksheet were loaded without any message.
C9_Witness ==
  /\ selected_sheet = W_Zzz
  /\ obs.lookup = "failed"
  /\ obs.ws_used = W_Jan
  /\ df = TableOf(W_Jan)
  /\ "error" \notin rendered

RECURSIVE C10_Sum(_, _, _)
\* The sum of the defined amounts of the rows 1..n with month m and type ty.
C10_Sum(n, m, ty) ==
  IF n = 0 THEN 0
  ELSE C10_Sum(n - 1, m, ty)
       + (IF /\ work.data[L_Month][n] = Str(m)
             /\ work.data[L_Type][n] = Str(ty)
             /\ work.data[L_Amount][n].k = "float"
          THEN work.data[L_Amount][n].v ELSE 0)

\* C10: the monthly matrix has one row per distinct Month (the "NaT" bucket
\* included) in ascending string order, one column per distinct Type, and in
\* each cell the sum of the defined amounts of that month and type, 0 when no
\* row has the pair.
C10_MonthlyMatrix ==
  pc \in {"export", "done"} =>
    LET months == {work.data[L_Month][i].s : i \in 1..work.n}
        types == {work.data[L_Type][i].s : i \in 1..work.n}
    IN  /\ Range(monthly_pivot.index) = months
        /\ Len(monthly_pivot.index) = Cardinality(months)
        /\ Range(monthly_pivot.columns) = types
        /\ Len(monthly_pivot.columns) = Cardinality(types)
        /\ DOMAIN monthly_pivot.cell = months \X types
        /\ \A m \in months, ty \in types :
             monthly_pivot.cell[<<m, ty>>] = Float(C10_Sum(work.n, m, ty))
        /\ \A i, j \in 1..Len(monthly_pivot.index) :
             i < j => StrLess(monthly_pivot.index[i], monthly_pivot.index[j])

\* A month and the "NaT" bucket, a debit and a credit: the month comes first
\* and the two pairs that no row has are 0.
C10_Witness ==
  /\ pc = "done"
  /\ Len(monthly_pivot.index) = 2
  /\ monthly_pivot.index[2] = S_NaT
  /\ monthly_pivot.columns = <<S_credit, S_debit>>
  /\ monthly_pivot.cell[<<monthly_pivot.index[1], S_debit>>] = Float(0 - 5)
  /\ monthly_pivot.cell[<<monthly_pivot.index[1], S_credit>>] = Float(0)
  /\ monthly_pivot.cell[<<S_NaT, S_debit>>] = Float(0)
  /\ monthly_pivot.cell[<<S_NaT, S_credit>>] = Float(7)

====
